---------------------------- MODULE Spec2Model ----------------------------
(***************************************************************************)
(* Model of packages/valory/contracts/agent_mech/contract.py:              *)
(* AgentMechContract, a class of classmethods over an externally supplied  *)
(* ledger client.  Every call is modelled as a thread walking through the  *)
(* statements of the method it runs; the ledger client's answers are the   *)
(* environment's choice.                                                   *)
(*                                                                         *)
(* Python values are modelled as follows:                                  *)
(*   bytes / HexBytes   sequence of integers 0..255                        *)
(*   str                sequence of one-character strings                  *)
(*   dict               function from key strings to values                *)
(*   int (unbounded)    [neg : BOOLEAN, mag : big-endian bytes, no leading *)
(*                      zero byte], so that 2^256 is representable         *)
(***************************************************************************)
EXTENDS Integers, Sequences, FiniteSets, TLC

\* ------------------------------------------------------------------ bounds

\* Longest sequence of logs a ledger answer or a receipt holds.
MaxLogs == 2

\* Longest `data` payload (in bytes) handed to get_deliver_data.
MaxData == 1

\* Highest block number a log is drawn from.
MaxBlock == 1

\* ------------------------------------------------------- program constants

\* ABI word size in bytes: a uint256 and every head/tail slot is one word.
WordBytes == 32

\* Length in bytes of a transaction hash.
HashBytes == 32

\* The threads that may call into the class.
Threads == {1, 2}

\* ------------------------------------------------------- bytes and strings

HexDigits == <<"0", "1", "2", "3", "4", "5", "6", "7",
               "8", "9", "a", "b", "c", "d", "e", "f">>

\* n bytes of value b.
RECURSIVE Repeat(_, _)
Repeat(b, n) == IF n = 0 THEN <<>> ELSE Append(Repeat(b, n - 1), b)

Zeros(n) == Repeat(0, n)

\* bytes.hex(): two lower-case hex digits per byte, no prefix.
bytes_hex(bs) ==
    [i \in 1..(2 * Len(bs)) |->
        IF i % 2 = 1 THEN HexDigits[(bs[(i + 1) \div 2] \div 16) + 1]
                     ELSE HexDigits[(bs[i \div 2] % 16) + 1]]

\* HexBytes.hex(): hexbytes < 1.0 returns "0x" + bytes.hex(), hexbytes >= 1.0
\* returns bytes.hex(); which one is installed is the environment's.
HexBytes_hex(bs, prefixed) ==
    IF prefixed THEN <<"0", "x">> \o bytes_hex(bs) ELSE bytes_hex(bs)

HexVal(c) == CHOOSE n \in 0..15 : HexDigits[n + 1] = c

\* bytes.fromhex(s) for a string of an even number of hex digits.
bytes_fromhex(s) ==
    [i \in 1..(Len(s) \div 2) |-> 16 * HexVal(s[2 * i - 1]) + HexVal(s[2 * i])]

\* s[2:]
DropTwo(s) == SubSeq(s, 3, Len(s))

\* dict literal {**a, **b}: keys of b win.
DictMerge(a, b) ==
    [k \in (DOMAIN a) \cup (DOMAIN b) |-> IF k \in DOMAIN b THEN b[k] ELSE a[k]]

\* ------------------------------------------------------------ results

Ok(v) == [ok |-> TRUE, value |-> v]
Raise(e) == [ok |-> FALSE, error |-> e]
NoResult == [pending |-> TRUE]

\* ------------------------------------------------------------ ABI encoding

\* First four bytes of keccak256("deliver(uint256,bytes)") = 0x157305fe.
DeliverSelector == <<21, 115, 5, 254>>

\* Non-negative integer below 2^16 as one big-endian ABI word.
WordOfNat(n) ==
    [i \in 1..WordBytes |->
        IF i = WordBytes THEN n % 256
        ELSE IF i = WordBytes - 1 THEN (n \div 256) % 256
        ELSE 0]

\* uint256 accepts exactly the integers 0 .. 2^256 - 1.
is_encodable_uint256(n) == ~n.neg /\ Len(n.mag) <= WordBytes

\* Big-endian magnitude left-padded to one word.
WordOfUint(n) == Zeros(WordBytes - Len(n.mag)) \o n.mag

\* Dynamic bytes: right-padded to a whole number of words.
PadRight(bs) == bs \o Zeros((WordBytes - (Len(bs) % WordBytes)) % WordBytes)

\* selector ++ head(uint256, offset of the bytes tail) ++ tail(length, content)
abi_encode_deliver(request_id, data) ==
    DeliverSelector \o WordOfUint(request_id) \o WordOfNat(2 * WordBytes)
        \o WordOfNat(Len(data)) \o PadRight(data)

\* contract_instance.encodeABI(fn_name="deliver", args=[request_id, data]),
\* a call into web3 5 (the release whose contract API has createFilter and
\* processReceipt): a "0x"-prefixed hex string, or web3.exceptions.ValidationError
\* when no function of the ABI named fn_name can encode the arguments.
encodeABI(instance, fn_name, request_id, data) ==
    IF fn_name \notin instance.abi.functions \/ ~is_encodable_uint256(request_id)
    THEN Raise("ValidationError")
    ELSE Ok(<<"0", "x">> \o bytes_hex(abi_encode_deliver(request_id, data)))


\* ------------------------------------------------------------ event records

\* One element of the generator in get_request_events / get_deliver_events:
\*   {"tx_hash": entry.transactionHash.hex(),
\*    "block_number": entry.blockNumber, **entry["args"]}
\* entry["args"] raises KeyError on a log that carries no "args".
event_record(entry, prefixed) ==
    IF "args" \notin DOMAIN entry THEN Raise("KeyError")
    ELSE Ok(DictMerge([tx_hash |-> HexBytes_hex(entry.transactionHash, prefixed),
                       block_number |-> entry.blockNumber],
                      entry.args))

\* Variant of build_records: each record is put in front of the ones built
\* so far, so the list comes out in reverse order.
RECURSIVE build_records_reversed(_, _)
build_records_reversed(entries, prefixed) ==
    IF entries = <<>> THEN Ok(<<>>)
    ELSE LET first == event_record(Head(entries), prefixed)
         IN  IF ~first.ok THEN first
             ELSE LET rest == build_records_reversed(Tail(entries), prefixed)
                  IN  IF ~rest.ok THEN rest
                      ELSE Ok(rest.value \o <<first.value>>)

\* Variant of build_records: a failing entry ends the loop and the records
\* built before it are returned.
RECURSIVE build_records_partial(_, _)
build_records_partial(entries, prefixed) ==
    IF entries = <<>> THEN Ok(<<>>)
    ELSE LET first == event_record(Head(entries), prefixed)
         IN  IF ~first.ok THEN Ok(<<>>)
             ELSE Ok(<<first.value>> \o build_records_partial(Tail(entries), prefixed).value)

\* list(<generator> for entry in entries): one record per entry, in order;
\* the first entry whose record cannot be built raises out of list().
RECURSIVE build_records(_, _)
build_records(entries, prefixed) ==
    IF entries = <<>> THEN Ok(<<>>)
    ELSE LET first == event_record(Head(entries), prefixed)
         IN  IF ~first.ok THEN first
             ELSE LET rest == build_records(Tail(entries), prefixed)
                  IN  IF ~rest.ok THEN rest
                      ELSE Ok(<<first.value>> \o rest.value)

\* return {"data": request_events}
events_result(entries, prefixed) ==
    LET built == build_records(entries, prefixed)
    IN  IF built.ok THEN Ok([data |-> built.value]) ELSE built

\* contract_instance.events.Request().processReceipt(tx_receipt): the decoded
\* logs of the receipt that belong to the event, in receipt order; each
\* carries the receipt's transaction hash and block number.
processReceipt(tx_receipt, event) ==
    LET Matches(log) == log.event = event
        matching == SelectSeq(tx_receipt.logs, Matches)
    IN  [i \in 1..Len(matching) |->
            [event |-> matching[i].event,
             args |-> matching[i].args,
             transactionHash |-> tx_receipt.transactionHash,
             blockNumber |-> tx_receipt.blockNumber]]

\* Variant of process_tx_receipt: *_, event = ... keeps the last match.
process_tx_receipt_last(tx_receipt) ==
    LET events == processReceipt(tx_receipt, "Request")
    IN  IF Len(events) = 0 THEN Raise("ValueError")
        ELSE Ok(events[Len(events)].args)

\* event, *_ = ...processReceipt(tx_receipt); return dict(event["args"])
\* Unpacking an empty tuple raises ValueError.
process_tx_receipt(tx_receipt) ==
    LET events == processReceipt(tx_receipt, "Request")
    IN  IF Len(events) = 0 THEN Raise("ValueError")
        ELSE Ok(events[1].args)

\* return {"data": bytes.fromhex(data[2:])}
deliver_result(instance, request_id, data) ==
    LET encoded == encodeABI(instance, "deliver", request_id, data)
    IN  IF encoded.ok THEN Ok([data |-> bytes_fromhex(DropTwo(encoded.value))])
        ELSE encoded

\* ------------------------------------------------------------ inputs

\* The sequences over S of length at most n.
RECURSIVE SeqsUpTo(_, _)
SeqsUpTo(S, n) ==
    IF n = 0 THEN {<<>>}
    ELSE LET shorter == SeqsUpTo(S, n - 1)
         IN  shorter \cup {Append(s, x) : s \in {q \in shorter : Len(q) = n - 1}, x \in S}

PyInt(mag) == [neg |-> FALSE, mag |-> mag]

\* 0, 1, 2^256 - 1, 2^256, 2^256 + 1 and -1.
RequestIds ==
    {PyInt(<<>>), PyInt(<<1>>), PyInt(Repeat(255, WordBytes)),
     PyInt(<<1>> \o Zeros(WordBytes)),
     PyInt(<<1>> \o Zeros(WordBytes - 1) \o <<1>>),
     [neg |-> TRUE, mag |-> <<1>>]}

Datas == SeqsUpTo({0, 255}, MaxData)

LedgerApis == {[ethereum |-> TRUE], [ethereum |-> FALSE]}
EthereumApi == [ethereum |-> TRUE]

Addresses == {"0xMech"}

TxHashes ==
    {Repeat(171, HashBytes), Append(Zeros(HashBytes - 1), 10)}

Blocks == 0..MaxBlock

\* Decoded event arguments.  The ABI is supplied with the contract package,
\* so an argument may carry any name, "tx_hash" and "block_number" included.
ArgDicts ==
    {[requestId |-> 1],
     [requestId |-> 2, block_number |-> 99],
     [requestId |-> 3, tx_hash |-> <<"z">>]}

\* A log the filter of `event` may hand back: decoded, or lacking "args".
Logs(event) ==
    {[event |-> event, transactionHash |-> h, blockNumber |-> b, args |-> a] :
        h \in TxHashes, b \in Blocks, a \in ArgDicts}
    \cup {[event |-> event, transactionHash |-> Zeros(HashBytes), blockNumber |-> 0]}

\* What the ledger client answers to createFilter(...).get_all_entries().
Responses(event) ==
    {[fail |-> TRUE, error |-> "ConnectionError"]}
    \cup {[fail |-> FALSE, logs |-> s] : s \in SeqsUpTo(Logs(event), MaxLogs)}

ReceiptLogs == {[event |-> e, args |-> a] : e \in {"Request", "Deliver"}, a \in ArgDicts}

Receipts ==
    {[transactionHash |-> h, blockNumber |-> b, logs |-> s] :
        h \in TxHashes, b \in Blocks, s \in SeqsUpTo(ReceiptLogs, MaxLogs)}

GenericOps == {"get_raw_transaction", "get_raw_message", "get_state"}
EventOps == {"get_request_events", "get_deliver_events"}

NoCall == [op |-> "none"]

\* The calls a caller may make, with arguments drawn from the given sets.
Calls(rids, datas, receipts) ==
    {[op |-> o, ledger_api |-> l, contract_address |-> a] :
        o \in GenericOps, l \in LedgerApis, a \in Addresses}
    \cup {[op |-> "get_deliver_data", ledger_api |-> l, contract_address |-> a,
           request_id |-> r, data |-> d] :
        l \in LedgerApis, a \in Addresses, r \in rids, d \in datas}
    \cup {[op |-> o, ledger_api |-> EthereumApi, contract_address |-> a,
           from_block |-> "earliest", to_block |-> "latest"] :
        o \in EventOps, a \in Addresses}
    \cup {[op |-> "process_tx_receipt", ledger_api |-> EthereumApi,
           contract_address |-> a, tx_receipt |-> rc] :
        a \in Addresses, rc \in receipts}

\* The smaller argument sets used when two threads call concurrently.
ConcRequestIds == {PyInt(<<1>>), PyInt(<<1>> \o Zeros(WordBytes))}

ConcReceipts ==
    {[transactionHash |-> Zeros(HashBytes), blockNumber |-> 0, logs |-> s] :
        s \in {<<>>,
               <<[event |-> "Deliver", args |-> [requestId |-> 1]]>>,
               <<[event |-> "Request", args |-> [requestId |-> 1]],
                 [event |-> "Request", args |-> [requestId |-> 2, block_number |-> 99]]>>}}

ConcCalls == Calls(ConcRequestIds, {<<>>}, ConcReceipts)

ConcResponses(event) ==
    {[fail |-> TRUE, error |-> "ConnectionError"],
     [fail |-> FALSE, logs |-> <<>>],
     [fail |-> FALSE,
      logs |-> <<[event |-> event, transactionHash |-> Zeros(HashBytes), blockNumber |-> 0]>>],
     [fail |-> FALSE,
      logs |-> <<[event |-> event, transactionHash |-> Repeat(171, HashBytes),
                  blockNumber |-> 0, args |-> [requestId |-> 1]]>>]}

\* The argument and answer sets of the two specifications.
AllCalls == Calls(RequestIds, Datas, Receipts)
RequestResponses == Responses("Request")
DeliverResponses == Responses("Deliver")
ConcRequestResponses == ConcResponses("Request")
ConcDeliverResponses == ConcResponses("Deliver")

\* The event whose filter method op creates.
EventOf(op) == IF op = "get_request_events" THEN "Request" ELSE "Deliver"

\* The answers the ledger may give to get_all_entries() on filter f.
AnswersTo(f, request_answers, deliver_answers) ==
    IF "event" \notin DOMAIN f THEN {}
    ELSE IF f.event = "Request" THEN request_answers
    ELSE deliver_answers

\* ------------------------------------------------------------ state

VARIABLES
    contract_id,        \* class attribute AgentMechContract.contract_id
    contract_interface, \* class attribute holding the contract's ABI
    hexbytes_prefixed,  \* whether the installed HexBytes.hex() prefixes "0x"
    pc,                 \* per thread: where its call stands
    call,               \* per thread: the method called and its arguments
    instance,           \* per thread: local contract_instance
    response,           \* per thread: the ledger's answer (local entries)
    result,             \* per thread: what the call returned or raised
    touched,            \* per thread: uses of ledger_api made by the call
    queries,            \* per thread: requests the call sent for its log query
    filter              \* per thread: the filter createFilter returned (local)

vars == <<contract_id, contract_interface, hexbytes_prefixed, pc, call,
          instance, response, result, touched, queries, filter>>

class_state == <<contract_id, contract_interface>>

AgentMechInterface ==
    [functions |-> {"deliver"}, events |-> {"Request", "Deliver"}]

NoInstance == [none |-> TRUE]
NoResponse == [none |-> TRUE]
NoFilter == [none |-> TRUE]

\* What the ledger client answers to createFilter: a filter, or a failure.
FilterOutcomes == {[fail |-> FALSE], [fail |-> TRUE, error |-> "ConnectionError"]}

Init ==
    /\ contract_id = "valory/agent_mech:0.1.0"
    /\ contract_interface = AgentMechInterface
    /\ hexbytes_prefixed \in BOOLEAN
    /\ pc = [t \in Threads |-> "idle"]
    /\ call = [t \in Threads |-> NoCall]
    /\ instance = [t \in Threads |-> NoInstance]
    /\ response = [t \in Threads |-> NoResponse]
    /\ result = [t \in Threads |-> NoResult]
    /\ touched = [t \in Threads |-> 0]
    /\ queries = [t \in Threads |-> 0]
    /\ filter = [t \in Threads |-> NoFilter]

\* cls.get_instance(ledger_api, contract_address): the ledger client builds a
\* contract object from the class's ABI and the address.
get_instance(ledger_api, contract_address) ==
    [address |-> contract_address, abi |-> contract_interface]

\* The call of thread t ends: it returns a value or raises.
Finish(t, r) ==
    /\ pc' = [pc EXCEPT ![t] = "done"]
    /\ result' = [result EXCEPT ![t] = r]

\* A caller enters one of the classmethods.
Invoke(t, calls) ==
    /\ pc[t] = "idle"
    /\ \E c \in calls : call' = [call EXCEPT ![t] = c]
    /\ pc' = [pc EXCEPT ![t] = "start"]
    /\ UNCHANGED <<class_state, hexbytes_prefixed, instance, response, result,
                   touched, queries, filter>>

\* get_raw_transaction / get_raw_message / get_state: raise NotImplementedError
RaiseNotImplemented(t) ==
    /\ pc[t] = "start"
    /\ call[t].op \in GenericOps
    /\ Finish(t, Raise("NotImplementedError"))
    /\ UNCHANGED <<class_state, hexbytes_prefixed, call, instance, response,
                   touched, queries, filter>>

\* Variant of CheckLedgerApi: the cast alone, as in the event methods.
CheckLedgerApiCastOnly(t) ==
    /\ pc[t] = "start"
    /\ call[t].op = "get_deliver_data"
    /\ pc' = [pc EXCEPT ![t] = "checked"]
    /\ UNCHANGED <<class_state, hexbytes_prefixed, call, instance, response,
                   result, touched, queries, filter>>

\* get_deliver_data: if not isinstance(ledger_api, EthereumApi): raise ValueError
CheckLedgerApi(t) ==
    /\ pc[t] = "start"
    /\ call[t].op = "get_deliver_data"
    /\ IF call[t].ledger_api.ethereum
       THEN pc' = [pc EXCEPT ![t] = "checked"] /\ UNCHANGED result
       ELSE Finish(t, Raise("ValueError"))
    /\ UNCHANGED <<class_state, hexbytes_prefixed, call, instance, response,
                   touched, queries, filter>>

\* contract_instance = cls.get_instance(ledger_api, contract_address)
GetInstance(t) ==
    /\ pc[t] = (IF call[t].op = "get_deliver_data" THEN "checked" ELSE "start")
    /\ call[t].op \in {"get_deliver_data", "process_tx_receipt"} \cup EventOps
    /\ instance' = [instance EXCEPT
                       ![t] = get_instance(call[t].ledger_api, call[t].contract_address)]
    /\ touched' = [touched EXCEPT ![t] = @ + 1]
    /\ pc' = [pc EXCEPT ![t] = "instance"]
    /\ UNCHANGED <<class_state, hexbytes_prefixed, call, response, result, queries, filter>>

\* Variant of EncodeDeliver: the function entry is taken out of the class's
\* ABI while it is used.
EncodeDeliverPopping(t) ==
    /\ pc[t] = "instance"
    /\ call[t].op = "get_deliver_data"
    /\ Finish(t, deliver_result(instance[t], call[t].request_id, call[t].data))
    /\ contract_interface' = [contract_interface EXCEPT !.functions = {}]
    /\ UNCHANGED <<contract_id, hexbytes_prefixed, call, instance, response,
                   touched, queries, filter>>

\* get_deliver_data: encodeABI(...); return {"data": bytes.fromhex(data[2:])}
EncodeDeliver(t) ==
    /\ pc[t] = "instance"
    /\ call[t].op = "get_deliver_data"
    /\ Finish(t, deliver_result(instance[t], call[t].request_id, call[t].data))
    /\ UNCHANGED <<class_state, hexbytes_prefixed, call, instance, response,
                   touched, queries, filter>>

\* get_*_events: contract_instance.events.<Event>.createFilter(
\*                   fromBlock=from_block, toBlock=to_block)
\* The first request to the ledger client; its failure leaves the method.
CreateFilter(t, o) ==
    /\ pc[t] = "instance"
    /\ call[t].op \in EventOps
    /\ touched' = [touched EXCEPT ![t] = @ + 1]
    /\ queries' = [queries EXCEPT ![t] = @ + 1]
    /\ IF o.fail
       THEN /\ Finish(t, Raise(o.error))
            /\ response' = [response EXCEPT ![t] = o]
            /\ UNCHANGED filter
       ELSE /\ filter' = [filter EXCEPT
                             ![t] = [event |-> EventOf(call[t].op),
                                     fromBlock |-> call[t].from_block,
                                     toBlock |-> call[t].to_block]]
            /\ pc' = [pc EXCEPT ![t] = "filter"]
            /\ UNCHANGED <<response, result>>
    /\ UNCHANGED <<class_state, hexbytes_prefixed, call, instance>>

\* get_*_events: entries = <filter>.get_all_entries()
\* The second request to the ledger client; its failure leaves the method.
GetAllEntries(t, r) ==
    /\ pc[t] = "filter"
    /\ response' = [response EXCEPT ![t] = r]
    /\ touched' = [touched EXCEPT ![t] = @ + 1]
    /\ queries' = [queries EXCEPT ![t] = @ + 1]
    /\ IF r.fail
       THEN Finish(t, Raise(r.error))
       ELSE pc' = [pc EXCEPT ![t] = "fetched"] /\ UNCHANGED result
    /\ UNCHANGED <<class_state, hexbytes_prefixed, call, instance, filter>>

\* get_*_events: list({...} for entry in entries); return {"data": ...}
BuildRecords(t) ==
    /\ pc[t] = "fetched"
    /\ Finish(t, events_result(response[t].logs, hexbytes_prefixed))
    /\ UNCHANGED <<class_state, hexbytes_prefixed, call, instance, response,
                   touched, queries, filter>>

\* process_tx_receipt: event, *_ = ...processReceipt(tx_receipt); return dict(...)
ProcessReceipt(t) ==
    /\ pc[t] = "instance"
    /\ call[t].op = "process_tx_receipt"
    /\ Finish(t, process_tx_receipt(call[t].tx_receipt))
    /\ UNCHANGED <<class_state, hexbytes_prefixed, call, instance, response,
                   touched, queries, filter>>

\* The caller takes the result; the call's locals are gone.
Return(t) ==
    /\ pc[t] = "done"
    /\ pc' = [pc EXCEPT ![t] = "idle"]
    /\ call' = [call EXCEPT ![t] = NoCall]
    /\ instance' = [instance EXCEPT ![t] = NoInstance]
    /\ response' = [response EXCEPT ![t] = NoResponse]
    /\ result' = [result EXCEPT ![t] = NoResult]
    /\ touched' = [touched EXCEPT ![t] = 0]
    /\ queries' = [queries EXCEPT ![t] = 0]
    /\ filter' = [filter EXCEPT ![t] = NoFilter]
    /\ UNCHANGED <<class_state, hexbytes_prefixed>>

\* One caller, arguments and ledger answers from the full sets.
Next ==
    \/ Invoke(1, AllCalls)
    \/ RaiseNotImplemented(1)
    \/ CheckLedgerApi(1)
    \/ GetInstance(1)
    \/ EncodeDeliver(1)
    \/ \E o \in FilterOutcomes : CreateFilter(1, o)
    \/ \E r \in AnswersTo(filter[1], RequestResponses, DeliverResponses) :
           GetAllEntries(1, r)
    \/ BuildRecords(1)
    \/ ProcessReceipt(1)
    \/ Return(1)

Spec == Init /\ [][Next]_vars

\* Two callers interleaved statement by statement.
NextConc ==
    \E t \in Threads :
        \/ Invoke(t, ConcCalls)
        \/ RaiseNotImplemented(t)
        \/ CheckLedgerApi(t)
        \/ GetInstance(t)
        \/ EncodeDeliver(t)
        \/ \E o \in FilterOutcomes : CreateFilter(t, o)
        \/ \E r \in AnswersTo(filter[t], ConcRequestResponses, ConcDeliverResponses) :
               GetAllEntries(t, r)
        \/ BuildRecords(t)
        \/ ProcessReceipt(t)
        \/ Return(t)

SpecConc == Init /\ [][NextConc]_vars

\* ------------------------------------------------------------ whole methods

\* get_deliver_data as a function of its arguments.
get_deliver_data(ledger_api, contract_address, request_id, data) ==
    IF ~ledger_api.ethereum THEN Raise("ValueError")
    ELSE deliver_result([address |-> contract_address, abi |-> AgentMechInterface],
                        request_id, data)

\* get_request_events / get_deliver_events as a function of the ledger's answer.
get_events(answer, prefixed) ==
    IF answer.fail THEN Raise(answer.error)
    ELSE events_result(answer.logs, prefixed)

\* What call c returns when nothing else runs, the ledger answering `answer`.
RunAlone(c, answer, prefixed) ==
    CASE c.op \in GenericOps -> Raise("NotImplementedError")
      [] c.op = "get_deliver_data" ->
            get_deliver_data(c.ledger_api, c.contract_address, c.request_id, c.data)
      [] c.op \in EventOps -> get_events(answer, prefixed)
      [] c.op = "process_tx_receipt" -> process_tx_receipt(c.tx_receipt)

\* ------------------------------------------------------------ claims

Done(t, ops) == pc[t] = "done" /\ call[t].op \in ops

\* Indices of the receipt's logs that belong to the Request event.
RequestIndices(tx_receipt) ==
    {i \in 1..Len(tx_receipt.logs) : tx_receipt.logs[i].event = "Request"}

FirstRequestIndex(tx_receipt) ==
    CHOOSE i \in RequestIndices(tx_receipt) :
        \A j \in RequestIndices(tx_receipt) : i <= j

\* C1: the list an event query returns under "data" has exactly one record per
\* log the ledger returned, in the ledger's order: the i-th record carries the
\* decoded arguments of the i-th log and has no field from anywhere else.
C1_OneRecordPerLogInOrder ==
    \A t \in Threads :
        (Done(t, EventOps) /\ result[t].ok) =>
            LET logs == response[t].logs
                data == result[t].value.data
            IN  /\ Len(data) = Len(logs)
                /\ \A i \in 1..Len(logs) :
                      /\ DOMAIN data[i] = {"tx_hash", "block_number"} \cup DOMAIN logs[i].args
                      /\ \A k \in DOMAIN logs[i].args : data[i][k] = logs[i].args[k]

\* C1 witness: a query returned the records of two different logs.
C1_Witness ==
    /\ Done(1, EventOps) /\ result[1].ok
    /\ Len(response[1].logs) = 2
    /\ response[1].logs[1].args # response[1].logs[2].args
    /\ Len(result[1].value.data) = 2

\* C2: in every record of an event query, block_number is the block number of
\* the log the record was built from and tx_hash is that log's transaction
\* hash as lower-case hex without a 0x prefix, whatever the names of the
\* event's arguments.
C2_BlockNumberAndTxHash ==
    \A t \in Threads :
        (Done(t, EventOps) /\ result[t].ok) =>
            \A i \in 1..Len(response[t].logs) :
                /\ result[t].value.data[i].block_number = response[t].logs[i].blockNumber
                /\ result[t].value.data[i].tx_hash
                       = bytes_hex(response[t].logs[i].transactionHash)

\* C3: process_tx_receipt on a receipt with no Request log fails with
\* NotFoundError and returns no record; on a receipt with exactly one Request
\* log it returns that log's decoded arguments.
C3_NotFoundOrTheOneMatch ==
    \A t \in Threads :
        Done(t, {"process_tx_receipt"}) =>
            LET rc == call[t].tx_receipt
                n == Cardinality(RequestIndices(rc))
            IN  /\ n = 0 => result[t] = Raise("NotFoundError")
                /\ n = 1 => result[t] = Ok(rc.logs[FirstRequestIndex(rc)].args)

\* C4: with two or more Request logs in the receipt, process_tx_receipt
\* returns the decoded arguments of the first one in receipt order, and the
\* same result as on the receipt cut off after that first match.
C4_FirstMatchOnly ==
    \A t \in Threads :
        (Done(t, {"process_tx_receipt"})
         /\ Cardinality(RequestIndices(call[t].tx_receipt)) >= 2) =>
            LET rc == call[t].tx_receipt
                first == FirstRequestIndex(rc)
            IN  /\ result[t] = Ok(rc.logs[first].args)
                /\ result[t] = process_tx_receipt(
                                   [rc EXCEPT !.logs = SubSeq(rc.logs, 1, first)])

\* C4 witness: a receipt with two Request logs of different arguments was processed.
C4_Witness ==
    /\ Done(1, {"process_tx_receipt"})
    /\ Cardinality(RequestIndices(call[1].tx_receipt)) = 2
    /\ call[1].tx_receipt.logs[1].args # call[1].tx_receipt.logs[2].args
    /\ result[1].ok

\* C5: the record process_tx_receipt returns for a matching log is the record
\* an event query builds for that log: the decoded arguments plus tx_hash and
\* block_number.
C5_ReceiptRecordLikeQueryRecord ==
    \A t \in Threads :
        (Done(t, {"process_tx_receipt"}) /\ result[t].ok) =>
            /\ {"tx_hash", "block_number"} \subseteq DOMAIN result[t].value
            /\ Ok(result[t].value)
                   = event_record(processReceipt(call[t].tx_receipt, "Request")[1],
                                  hexbytes_prefixed)

\* C6: two get_deliver_data calls with the same valid arguments return the
\* same bytes, whatever ran before or between them.
C6_DeliverDeterministic ==
    \A t, u \in Threads :
        (Done(t, {"get_deliver_data"}) /\ Done(u, {"get_deliver_data"})
         /\ call[t] = call[u]
         /\ call[t].ledger_api.ethereum
         /\ is_encodable_uint256(call[t].request_id)) =>
            /\ result[t].ok /\ result[u].ok
            /\ result[t].value.data = result[u].value.data

\* C6 witness: both threads hold the result of the same valid call.
C6_Witness ==
    /\ Done(1, {"get_deliver_data"}) /\ Done(2, {"get_deliver_data"})
    /\ call[1] = call[2]
    /\ result[1].ok /\ result[2].ok

\* A request_id of 2^256 or more.
ExceedsUint256(n) == ~n.neg /\ Len(n.mag) > WordBytes

\* C7: get_deliver_data rejects every request_id >= 2^256 with EncodingError
\* and returns no encoded call for it.
C7_RejectsOverflowWithEncodingError ==
    \A t \in Threads :
        (Done(t, {"get_deliver_data"}) /\ ExceedsUint256(call[t].request_id)) =>
            result[t] = Raise("EncodingError")

\* Supporting fact for C7: a call with a request_id >= 2^256 ends with an
\* error and holds no encoded bytes (none of request_id modulo 2^256 either).
OverflowingRequestIdNeverEncoded ==
    \A t \in Threads :
        (Done(t, {"get_deliver_data"}) /\ ExceedsUint256(call[t].request_id)) =>
            ~result[t].ok /\ "value" \notin DOMAIN result[t]

\* What an event query returns when a request fails or a record cannot be
\* built: nothing, and the call ends with that error.
AllOrNothing(t) ==
    /\ response[t].fail => result[t] = Raise(response[t].error)
    /\ (~response[t].fail
        /\ \E i \in 1..Len(response[t].logs) :
               ~event_record(response[t].logs[i], hexbytes_prefixed).ok) =>
           /\ ~result[t].ok
           /\ "value" \notin DOMAIN result[t]
           /\ result[t] = Raise("KeyError")

\* C8 (as amended): an event query sends each of its two requests to the
\* ledger client at most once and never again: createFilter exactly once,
\* get_all_entries once if createFilter succeeded and not at all otherwise; if
\* either request fails, or the record of any returned log cannot be built,
\* the call returns nothing and ends with that error.
C8_AllOrNothingEachRequestOnce ==
    \A t \in Threads :
        Done(t, EventOps) =>
            /\ queries[t] = (IF filter[t] = NoFilter THEN 1 ELSE 2)
            /\ filter[t] = NoFilter => response[t].fail
            /\ AllOrNothing(t)

\* C8 (as claimed): an event query asks the ledger client exactly once; if
\* that request fails, or the record of any returned log cannot be built, the
\* call returns nothing and ends with that error.
C8_AllOrNothingNoRetry ==
    \A t \in Threads :
        Done(t, EventOps) =>
            /\ queries[t] = 1
            /\ response[t].fail => result[t] = Raise(response[t].error)
            /\ (~response[t].fail
                /\ \E i \in 1..Len(response[t].logs) :
                       ~event_record(response[t].logs[i], hexbytes_prefixed).ok) =>
                   /\ ~result[t].ok
                   /\ "value" \notin DOMAIN result[t]
                   /\ result[t] = Raise("KeyError")

\* C8 witness: the second of two returned logs could not be turned into a record.
C8_Witness ==
    /\ Done(1, EventOps)
    /\ ~response[1].fail
    /\ Len(response[1].logs) = 2
    /\ event_record(response[1].logs[1], hexbytes_prefixed).ok
    /\ ~event_record(response[1].logs[2], hexbytes_prefixed).ok

\* C9: no step of any call, however the calls of two threads interleave,
\* changes the class's state (contract_id, the ABI), and every finished call
\* holds the result it would have returned running alone on its arguments and
\* ledger answer.
C9_NoSharedStateChanged ==
    [][/\ class_state' = class_state
       /\ \A t \in Threads :
             pc'[t] = "done" =>
                 result'[t] = RunAlone(call'[t], response'[t], hexbytes_prefixed)]_vars

\* C9 witness: two calls of different methods ran interleaved and both finished.
C9_Witness ==
    /\ Done(1, {"get_deliver_data"}) /\ result[1].ok
    /\ Done(2, EventOps) /\ result[2].ok
    /\ Len(result[2].value.data) = 1

\* C10: get_deliver_data on a ledger client that is not an EthereumApi ends
\* with ValueError before the contract instance is obtained and returns no
\* data; the three generic handlers end with NotImplementedError without
\* using the ledger client.
C10_UnsupportedCallsFailEarly ==
    \A t \in Threads :
        /\ (Done(t, {"get_deliver_data"}) /\ ~call[t].ledger_api.ethereum) =>
              /\ result[t] = Raise("ValueError")
              /\ instance[t] = NoInstance
              /\ touched[t] = 0
        /\ Done(t, GenericOps) =>
              /\ result[t] = Raise("NotImplementedError")
              /\ instance[t] = NoInstance
              /\ touched[t] = 0

\* C10 witness: get_deliver_data was called with another kind of ledger client.
C10_Witness ==
    /\ Done(1, {"get_deliver_data"})
    /\ ~call[1].ledger_api.ethereum
    /\ ~result[1].ok

=============================================================================
